---- MODULE Spec2Model ----
(***************************************************************************)
(* Agentic Readiness Auditor: the audit heuristics (app.py), the scorer    *)
(* (visuals.py) and the Streamlit session logic around them.               *)
(*                                                                         *)
(* Text is a sequence of lexical atoms ("Found (Standard)" is              *)
(* <<"Found", "(Standard)">>); Python's `needle in text` is Contains.     *)
(* An HTTP probe answers with a response (status_code, text) or raises.   *)
(***************************************************************************)
EXTENDS Integers, Sequences, FiniteSets, TLC

VARIABLES world, pc, gates, result, session, shown, last

vars == <<world, pc, gates, result, session, shown, last>>

(* ------------------------------ bounds -------------------------------- *)

\* longest robots.txt body, in atoms
MaxBodyLen == 2

\* most JSON-LD script blocks on a homepage
MaxSchemas == 1

(* ------------------------------- text --------------------------------- *)

\* Python `atom in text`
Contains(text, atom) ==
  \E i \in 1..Len(text) : text[i] = atom

RECURSIVE Join(_)
\* ", ".join(stack)
Join(labels) ==
  IF Len(labels) = 0 THEN << >>
  ELSE IF Len(labels) = 1 THEN Head(labels)
  ELSE Head(labels) \o <<",">> \o Join(Tail(labels))

RECURSIVE SeqsUpTo(_, _)
SeqsUpTo(S, n) ==
  IF n = 0 THEN { << >> }
  ELSE LET shorter == SeqsUpTo(S, n - 1)
       IN  shorter \cup { Append(s, a) : s \in shorter, a \in S }

\* Python None, in a slot that otherwise holds a dict
None == [none |-> TRUE]

\* Python None, in a slot that otherwise holds a list
NoneList == <<"None">>

(* --------------------------- HTTP responses --------------------------- *)

\* requests.get raised (connection error, DNS failure, timeout)
NetworkError == [kind |-> "exception"]

Response(code, body) == [kind |-> "response", status_code |-> code, text |-> body]

Raised(r) == r.kind = "exception"

StatusCodes == {200, 404, 500}

\* what a probe whose body is not read can answer
ProbeResults == { Response(c, << >>) : c \in StatusCodes } \cup {NetworkError}

RobotsAtoms == {"GPTBot", "Disallow", "Allow"}

RobotsResults ==
  { Response(200, b) : b \in SeqsUpTo(RobotsAtoms, MaxBodyLen) }
    \cup { Response(c, << >>) : c \in StatusCodes \ {200} }
    \cup {NetworkError}

(* --------------------------- status strings --------------------------- *)

Found == <<"Found">>
Missing == <<"Missing">>
Error == <<"Error">>
Allowed == <<"Allowed">>
Blocked == <<"BLOCKED", "(Critical", "Issue)">>
Uncontrolled == <<"Uncontrolled", "(Risky)">>
Unknown == <<"Unknown">>
FoundStandard == <<"Found", "(Standard)">>
FoundSitemaps == <<"Found", "(sitemaps.xml)">>
FoundSitemapIndex == <<"Found", "(sitemap_index.xml)">>
FoundWpSitemap == <<"Found", "(wp-sitemap.xml)">>
ErrorChecking == <<"Error", "checking">>
FoundFutureProof == <<"Found", "(Future", "Proof!)">>
FoundAIPlugin == <<"Found", "(AI", "Plugin)">>
FoundWebManifest == <<"Found", "(Web", "Manifest)">>
FoundLinkedInHTML == <<"Found", "(Linked", "in", "HTML)">>

(* ------------------------ check_security_gates ------------------------ *)

\* the robots.txt try block: <<gates['robots.txt'], gates['ai_access']>>
RobotsGateBlockedOnEither(r) ==
  IF Raised(r) THEN <<Error, Unknown>>
  ELSE IF r.status_code = 200
       THEN IF Contains(r.text, "GPTBot") \/ Contains(r.text, "Disallow")
            THEN <<Found, Blocked>>
            ELSE <<Found, Allowed>>
       ELSE <<Missing, Uncontrolled>>

RobotsGateMissingAllowed(r) ==
  IF Raised(r) THEN <<Error, Unknown>>
  ELSE IF r.status_code = 200
       THEN IF Contains(r.text, "GPTBot") /\ Contains(r.text, "Disallow")
            THEN <<Found, Blocked>>
            ELSE <<Found, Allowed>>
       ELSE <<Missing, Allowed>>

RobotsGate(r) ==
  IF Raised(r) THEN <<Error, Unknown>>
  ELSE IF r.status_code = 200
       THEN IF Contains(r.text, "GPTBot") /\ Contains(r.text, "Disallow")
            THEN <<Found, Blocked>>
            ELSE <<Found, Allowed>>
       ELSE <<Missing, Uncontrolled>>

\* the sitemap try block; s is the four probes in request order
SitemapGateIndexFirst(s) ==
  IF \E i \in 1..4 : Raised(s[i]) THEN ErrorChecking
  ELSE IF s[3].status_code = 200 THEN FoundSitemapIndex
  ELSE IF s[1].status_code = 200 THEN FoundStandard
  ELSE IF s[2].status_code = 200 THEN FoundSitemaps
  ELSE IF s[4].status_code = 200 THEN FoundWpSitemap
  ELSE Missing

SitemapGate(s) ==
  IF \E i \in 1..4 : Raised(s[i]) THEN ErrorChecking
  ELSE IF s[1].status_code = 200 THEN FoundStandard
  ELSE IF s[2].status_code = 200 THEN FoundSitemaps
  ELSE IF s[3].status_code = 200 THEN FoundSitemapIndex
  ELSE IF s[4].status_code = 200 THEN FoundWpSitemap
  ELSE Missing

\* the ai.txt try block
AiTxtGate(a) ==
  IF Raised(a) THEN Error
  ELSE IF a.status_code = 200 THEN FoundFutureProof ELSE Missing

check_security_gates(robots, sitemaps, ai_txt) ==
  [ robots_txt  |-> RobotsGate(robots)[1],
    ai_access   |-> RobotsGate(robots)[2],
    sitemap_xml |-> SitemapGate(sitemaps),
    ai_txt      |-> AiTxtGate(ai_txt) ]

(* ------------------------- detect_tech_stack -------------------------- *)

\* substrings of str(soup) the fingerprinter looks for
Signatures ==
  {"wp-content", "cdn.shopify.com", "Shopify", "woocommerce",
   "__NEXT_DATA__", "data-reactroot", "Wix", "wix-warmup-data"}

\* str(soup.find("meta", attrs={"name": "generator"}))
Generators == { <<"None">>, <<"<meta", "generator", "WordPress", "6.4>">> }

\* X-Powered-By values a server may send
PoweredByValues == { <<"Express">>, <<"Next.js">> }

XPoweredBy(value) == [name |-> "X-Powered-By", value |-> value]

HeaderSets == { {} } \cup { {XPoweredBy(v)} : v \in PoweredByValues }

HasHeader(headers, name) == \E h \in headers : h.name = name

HeaderValue(headers, name) == (CHOOSE h \in headers : h.name = name).value

\* stack.append(label) when the condition holds
AppendIf(stack, cond, label) == IF cond THEN Append(stack, label) ELSE stack

\* the list `stack` before it is joined
StackLabels(soup, headers) ==
  LET html == soup.html
      s1 == AppendIf(<< >>, "wp-content" \in html \/ Contains(soup.generator, "WordPress"),
                     <<"WordPress">>)
      s2 == AppendIf(s1, "cdn.shopify.com" \in html \/ "Shopify" \in html, <<"Shopify">>)
      s3 == AppendIf(s2, "woocommerce" \in html, <<"WooCommerce">>)
      s4 == AppendIf(s3, "__NEXT_DATA__" \in html, <<"Next.js", "(React)">>)
      s5 == AppendIf(s4, "data-reactroot" \in html, <<"React">>)
      s6 == AppendIf(s5, "Wix" \in html \/ "wix-warmup-data" \in html, <<"Wix">>)
  IN  AppendIf(s6, HasHeader(headers, "X-Powered-By"),
               <<"Server:">> \o HeaderValue(headers, "X-Powered-By"))

detect_tech_stack(soup, headers) ==
  IF StackLabels(soup, headers) # << >>
  THEN Join(StackLabels(soup, headers))
  ELSE <<"Custom/Unknown", "Stack">>

(* ---------------------- generate_recommendations ---------------------- *)

RecWhitelist == "CRITICAL: Update robots.txt to whitelist"
RecSchema == "HIGH PRIORITY: Implement JSON-LD Schema"
RecAiTxt == "OPTIMIZATION: Create an 'ai.txt' file"
RecSSR == "TECH FIX: Ensure Schema is injected via SSR"

generate_recommendations_no_schema_test(audit_data) ==
  LET r1 == AppendIf(<< >>, Contains(audit_data.gates.ai_access, "BLOCKED"), RecWhitelist)
      r2 == AppendIf(r1, audit_data.schema_count = 0, RecSchema)
      r3 == AppendIf(r2, Contains(audit_data.gates.ai_txt, "Missing"), RecAiTxt)
  IN  AppendIf(r3, Contains(audit_data.stack, "Next.js"), RecSSR)

generate_recommendations_ai_txt_first(audit_data) ==
  LET r1 == AppendIf(<< >>, Contains(audit_data.gates.ai_access, "BLOCKED"), RecWhitelist)
      r2 == AppendIf(r1, Contains(audit_data.gates.ai_txt, "Missing"), RecAiTxt)
      r3 == AppendIf(r2, audit_data.schema_count = 0, RecSchema)
  IN  AppendIf(r3, Contains(audit_data.stack, "Next.js") /\ audit_data.schema_count = 0,
               RecSSR)

generate_recommendations(audit_data) ==
  LET r1 == AppendIf(<< >>, Contains(audit_data.gates.ai_access, "BLOCKED"), RecWhitelist)
      r2 == AppendIf(r1, audit_data.schema_count = 0, RecSchema)
      r3 == AppendIf(r2, Contains(audit_data.gates.ai_txt, "Missing"), RecAiTxt)
  IN  AppendIf(r3, Contains(audit_data.stack, "Next.js") /\ audit_data.schema_count = 0,
               RecSSR)

(* -------------------------- calculate_score --------------------------- *)

Points(cond) == IF cond THEN 20 ELSE 0

RobotsPoints(audit_data) == Points(audit_data.gates.robots_txt = Found)

AccessPoints(audit_data) == Points(Contains(audit_data.gates.ai_access, "Allowed"))

SitemapPoints(audit_data) == Points(Contains(audit_data.gates.sitemap_xml, "Found"))

SchemaPoints(audit_data) == Points(audit_data.schema_count > 0)

BonusPoints(audit_data) ==
  Points(Contains(audit_data.gates.ai_txt, "Found") \/ Contains(audit_data.manifest, "Found"))

calculate_score_bonus_twice(audit_data) ==
  RobotsPoints(audit_data) + AccessPoints(audit_data) + SitemapPoints(audit_data)
    + SchemaPoints(audit_data)
    + Points(Contains(audit_data.gates.ai_txt, "Found"))
    + Points(Contains(audit_data.manifest, "Found"))

calculate_score(audit_data) ==
  RobotsPoints(audit_data) + AccessPoints(audit_data) + SitemapPoints(audit_data)
    + SchemaPoints(audit_data) + BonusPoints(audit_data)

(* ---------------------------- perform_audit --------------------------- *)

\* the homepage as seen through BeautifulSoup
Soup(html, generator, schemas, manifest_link) ==
  [html |-> html, generator |-> generator, schemas |-> schemas,
   manifest_link |-> manifest_link]

\* response.content == b"": nothing to find in the markup
EmptySoup == Soup({}, <<"None">>, 0, FALSE)

HomeResponse(headers, soup) ==
  [kind |-> "response", status_code |-> 200, headers |-> headers, soup |-> soup]

\* the manifest if/elif chain
ManifestStatusWebFirst(plugin_res, web_manifest_res, html_manifest) ==
  IF web_manifest_res.status_code = 200 THEN FoundWebManifest
  ELSE IF plugin_res.status_code = 200 THEN FoundAIPlugin
  ELSE IF html_manifest THEN FoundLinkedInHTML
  ELSE Missing

ManifestStatus(plugin_res, web_manifest_res, html_manifest) ==
  IF plugin_res.status_code = 200 THEN FoundAIPlugin
  ELSE IF web_manifest_res.status_code = 200 THEN FoundWebManifest
  ELSE IF html_manifest THEN FoundLinkedInHTML
  ELSE Missing

\* the except branch: st.error("Audit Failed: ...") and return None, None, None
AuditFailed(why) ==
  [audit_data |-> None, recs |-> NoneList, ai_summary |-> None, error |-> why]

\* model.generate_content(prompt).text: a report on what the prompt embeds
Narrative(audit_data) ==
  [report_on |-> [url |-> audit_data.url, stack |-> audit_data.stack,
                  gates |-> audit_data.gates, schemas |-> audit_data.schema_count,
                  manifest |-> audit_data.manifest]]

\* the record compiled once every request of the try block has answered
CompileData(url, w) ==
  [ url           |-> url,
    stack         |-> detect_tech_stack(w.home.soup, w.home.headers),
    gates         |-> check_security_gates(w.robots, w.sitemaps, w.ai_txt),
    schema_count  |-> w.home.soup.schemas,
    schema_sample |-> IF w.home.soup.schemas > 0 THEN <<"ld+json">> ELSE <<"None">>,
    manifest      |-> ManifestStatus(w.plugin, w.web_manifest, w.home.soup.manifest_link) ]

perform_audit(url, w) ==
  IF Raised(w.home) THEN AuditFailed("homepage")
  ELSE IF Raised(w.plugin) \/ Raised(w.web_manifest) THEN AuditFailed("identity")
  ELSE IF w.gen = "error" THEN AuditFailed("generation")
  ELSE [ audit_data |-> CompileData(url, w),
         recs       |-> generate_recommendations(CompileData(url, w)),
         ai_summary |-> Narrative(CompileData(url, w)),
         error      |-> "none" ]

(* ------------------------- Streamlit session -------------------------- *)

\* st.session_state after the initialisation block
EmptySession ==
  [audit_data |-> None, recs |-> NoneList, ai_summary |-> None, url_history |-> << >>]

\* the history insert of the Run handler
Remember(history, url_input) ==
  IF Contains(history, url_input) THEN history ELSE <<url_input>> \o history

\* `if data:` and the three assignments under it
StoreResultSummaryAlways(sess, res) ==
  IF res.audit_data # None
  THEN [sess EXCEPT !.audit_data = res.audit_data, !.recs = res.recs,
                    !.ai_summary = res.ai_summary]
  ELSE [sess EXCEPT !.ai_summary = res.ai_summary]

StoreResult(sess, res) ==
  IF res.audit_data # None
  THEN [sess EXCEPT !.audit_data = res.audit_data, !.recs = res.recs,
                    !.ai_summary = res.ai_summary]
  ELSE sess

\* the display block: what the page shows below the input
Display(sess) ==
  IF sess.audit_data # None
  THEN [ banner     |-> "Audit Complete! Report Loaded.",
         audit_data |-> sess.audit_data,
         score      |-> calculate_score(sess.audit_data),
         ai_summary |-> sess.ai_summary,
         recs       |-> sess.recs ]
  ELSE None

(* ------------------------------ inputs -------------------------------- *)

AuditUrl == "https://shop.example"

Urls == {"", "https://shop.example", "https://blog.example/"}

ApiKeys == {"", "key"}

NotFound == Response(404, << >>)

GenOutcomes == {"ok", "error"}

World(home, robots, sitemaps, ai_txt, plugin, web_manifest, gen) ==
  [home |-> home, robots |-> robots, sitemaps |-> sitemaps, ai_txt |-> ai_txt,
   plugin |-> plugin, web_manifest |-> web_manifest, gen |-> gen]

\* every answer the three gate requests can get
GateWorlds ==
  { World(HomeResponse({}, EmptySoup), r, <<s1, s2, s3, s4>>, a, NotFound, NotFound, "ok") :
      r \in RobotsResults, s1 \in ProbeResults, s2 \in ProbeResults,
      s3 \in ProbeResults, s4 \in ProbeResults, a \in ProbeResults }

Reachability == { Response(200, << >>), NotFound, NetworkError }

\* the network around one audit: any probe may answer 200, 404 or fail
AuditWorlds ==
  { World(h, r, <<s1, s2, s3, s4>>, a, p, m, g) :
      h \in {NetworkError}
            \cup { HomeResponse(hd, Soup({}, <<"None">>, n, l)) :
                     hd \in HeaderSets, n \in 0..MaxSchemas, l \in BOOLEAN },
      r \in Reachability \cup { Response(200, <<"GPTBot", "Disallow">>) },
      s1 \in Reachability, s2 \in Reachability, s3 \in Reachability, s4 \in Reachability,
      a \in Reachability, p \in Reachability, m \in Reachability, g \in GenOutcomes }

\* every homepage the fingerprinter can face, on a site that answers
StackWorlds ==
  { World(HomeResponse(hd, Soup(html, gen, n, FALSE)), r, <<NotFound, NotFound, NotFound, NotFound>>,
          a, NotFound, NotFound, "ok") :
      hd \in HeaderSets, html \in SUBSET Signatures, gen \in Generators, n \in 0..MaxSchemas,
      r \in { NotFound, Response(200, <<"GPTBot", "Disallow">>) },
      a \in { NotFound, Response(200, << >>) } }

\* the sites a session audits
SessionWorlds ==
  { World(h, r, <<NotFound, NotFound, NotFound, NotFound>>, NotFound, p, NotFound, g) :
      h \in { NetworkError, HomeResponse({}, EmptySoup),
              HomeResponse({}, Soup({"__NEXT_DATA__"}, <<"None">>, 1, FALSE)) },
      r \in { NetworkError, Response(200, << >>) },
      p \in { Response(200, << >>), NetworkError },
      g \in GenOutcomes }

(* ------------------------------ actions ------------------------------- *)

Idle ==
  /\ gates = None
  /\ result = None
  /\ session = EmptySession
  /\ shown = None
  /\ last = "none"

\* gates = check_security_gates(url)
CheckSecurityGates ==
  /\ pc = "start"
  /\ gates' = check_security_gates(world.robots, world.sitemaps, world.ai_txt)
  /\ pc' = "done"
  /\ UNCHANGED <<world, result, session, shown, last>>

\* data, recommendations, summary = perform_audit(url_input, api_key)
PerformAudit ==
  /\ pc = "start"
  /\ result' = perform_audit(AuditUrl, world)
  /\ pc' = "done"
  /\ UNCHANGED <<world, gates, session, shown, last>>

\* one script run with the Run Full Audit button pressed
RunFullAudit(url_input, api_key, w) ==
  /\ pc = "idle"
  /\ IF api_key = "" \/ url_input = ""
     THEN /\ last' = "rejected"
          /\ UNCHANGED <<result, session>>
     ELSE /\ result' = perform_audit(url_input, w)
          /\ session' = StoreResult(
                          [session EXCEPT !.url_history = Remember(@, url_input)], result')
          /\ last' = IF result'.error = "none" THEN "ok" ELSE result'.error
  /\ shown' = Display(session')
  /\ UNCHANGED <<world, pc, gates>>

\* the Start New Audit button, drawn only under a report, then st.rerun()
StartNewAudit ==
  /\ pc = "idle"
  /\ shown # None
  /\ session' = [session EXCEPT !.audit_data = None, !.recs = NoneList, !.ai_summary = None]
  /\ shown' = Display(session')
  /\ last' = "cleared"
  /\ UNCHANGED <<world, pc, gates, result>>

(* --------------------------- specifications --------------------------- *)

GatesInit == world \in GateWorlds /\ pc = "start" /\ Idle

SpecGates == GatesInit /\ [][CheckSecurityGates]_vars

AuditInit == world \in AuditWorlds /\ pc = "start" /\ Idle

SpecAudit == AuditInit /\ [][PerformAudit]_vars

StackInit == world \in StackWorlds /\ pc = "start" /\ Idle

SpecStack == StackInit /\ [][PerformAudit]_vars

Init == world = None /\ pc = "idle" /\ Idle

Next ==
  \/ \E url_input \in Urls, api_key \in ApiKeys, w \in SessionWorlds :
        RunFullAudit(url_input, api_key, w)
  \/ StartNewAudit

Spec == Init /\ [][Next]_vars

(* ------------------------------- claims ------------------------------- *)

Produced == pc = "done" /\ result.audit_data # None

\* C1: with the homepage fetch and the narrative call succeeding, a failure of
\* any well-known-path probe still leaves perform_audit returning a record.
C1_NoProbeFailureAborts ==
  (pc = "done" /\ ~Raised(world.home) /\ world.gen = "ok") => result.audit_data # None

\* C2: whenever the most recent run ended in a narrative-generation failure,
\* the page shows no report (no record, no score, no recommendations).
C2_FailedRunShowsNoReport ==
  last = "generation" => shown = None

ScoreValues == {0, 20, 40, 60, 80, 100}

\* C3: the score of every record an audit produces is a multiple of 20
\* between 0 and 100.
C3_ScoreRange ==
  Produced => calculate_score(result.audit_data) \in ScoreValues

C3_Witness ==
  /\ Produced
  /\ result.audit_data.gates.ai_txt = FoundFutureProof
  /\ result.audit_data.manifest = FoundAIPlugin
  /\ calculate_score(result.audit_data) = 100

\* C4: ai_access is Blocked on a 200 whose body holds both "GPTBot" and
\* "Disallow", Allowed on any other 200, Uncontrolled on a non-200 answer,
\* Unknown when the fetch fails, and nothing else.
C4_AiAccessDerivation ==
  pc = "done" =>
    LET r == world.robots
        both == Contains(r.text, "GPTBot") /\ Contains(r.text, "Disallow")
    IN  /\ (~Raised(r) /\ r.status_code = 200 /\ both) => gates.ai_access = Blocked
        /\ (~Raised(r) /\ r.status_code = 200 /\ ~both) => gates.ai_access = Allowed
        /\ (~Raised(r) /\ r.status_code # 200) => gates.ai_access = Uncontrolled
        /\ Raised(r) => gates.ai_access = Unknown
        /\ gates.ai_access \in {Blocked, Allowed, Uncontrolled, Unknown}

C4_Witness ==
  /\ pc = "done"
  /\ world.robots = Response(200, <<"Disallow", "GPTBot">>)
  /\ gates.ai_access = Blocked

\* the tag of the i-th sitemap path, in request order
VariantTag(i) ==
  CASE i = 1 -> FoundStandard
    [] i = 2 -> FoundSitemaps
    [] i = 3 -> FoundSitemapIndex
    [] i = 4 -> FoundWpSitemap

\* C5: when all four sitemap probes answer, the gate carries the tag of the
\* first path, in request order, that answered 200, and is Missing exactly
\* when none did.
C5_SitemapPrecedence ==
  (pc = "done" /\ \A i \in 1..4 : ~Raised(world.sitemaps[i])) =>
    LET hits == { i \in 1..4 : world.sitemaps[i].status_code = 200 }
    IN  /\ (hits = {}) <=> (gates.sitemap_xml = Missing)
        /\ \A i \in hits : (\A j \in hits : i <= j) => gates.sitemap_xml = VariantTag(i)

C5_Witness ==
  /\ pc = "done"
  /\ world.sitemaps[1] = Response(200, << >>)
  /\ world.sitemaps[2] = NotFound
  /\ world.sitemaps[3] = Response(200, << >>)
  /\ gates.sitemap_xml = FoundStandard

\* C6: the manifest status of a produced record is the first match of:
\* ai-plugin.json answered 200, manifest.json answered 200, the homepage links
\* a manifest, else Missing.
C6_ManifestPrecedence ==
  Produced =>
    LET m == result.audit_data.manifest
        plugin == world.plugin.status_code = 200
        web == world.web_manifest.status_code = 200
        link == world.home.soup.manifest_link
    IN  /\ plugin => m = FoundAIPlugin
        /\ (~plugin /\ web) => m = FoundWebManifest
        /\ (~plugin /\ ~web /\ link) => m = FoundLinkedInHTML
        /\ (~plugin /\ ~web /\ ~link) => m = Missing

C6_Witness ==
  /\ Produced
  /\ world.plugin.status_code = 200
  /\ world.web_manifest.status_code = 200
  /\ world.home.soup.manifest_link
  /\ result.audit_data.manifest = FoundAIPlugin

\* the end-to-end scenario: an empty homepage and 404 on every probe
AllMissingSite ==
  /\ ~Raised(world.home)
  /\ world.home.status_code = 200
  /\ world.home.soup = EmptySoup
  /\ world.robots = NotFound
  /\ \A i \in 1..4 : world.sitemaps[i] = NotFound
  /\ world.ai_txt = NotFound
  /\ world.plugin = NotFound
  /\ world.web_manifest = NotFound

AllMissingOutcome ==
  /\ result.audit_data.gates =
       [robots_txt |-> Missing, ai_access |-> Uncontrolled,
        sitemap_xml |-> Missing, ai_txt |-> Missing]
  /\ result.audit_data.manifest = Missing
  /\ result.audit_data.schema_count = 0
  /\ calculate_score(result.audit_data) = 0
  /\ result.recs = <<RecSchema, RecAiTxt>>

PoweredByNextJs(headers) ==
  HasHeader(headers, "X-Powered-By") /\ Contains(HeaderValue(headers, "X-Powered-By"), "Next.js")

\* C7 as stated: on the all-missing site the record is all Missing, scores 0
\* and carries exactly the structured-data and ai.txt recommendations.
C7_AllMissingAsStated ==
  (Produced /\ AllMissingSite) => AllMissingOutcome

\* C7 as amended: the same, for a homepage response without an X-Powered-By
\* header that names Next.js.
C7_AllMissing ==
  (Produced /\ AllMissingSite /\ ~PoweredByNextJs(world.home.headers)) => AllMissingOutcome

C7_Witness ==
  /\ Produced
  /\ AllMissingSite
  /\ world.home.headers = {XPoweredBy(<<"Express">>)}
  /\ result.audit_data.stack = <<"Server:", "Express">>
  /\ AllMissingOutcome

HasNextJsLabel ==
  Contains(StackLabels(world.home.soup, world.home.headers), <<"Next.js", "(React)">>)

\* C8 as stated: the server-side-rendering recommendation is emitted exactly
\* when the stack labels include "Next.js (React)" and schema_count is 0.
C8_SsrRuleAsStated ==
  Produced =>
    (Contains(result.recs, RecSSR)
       <=> (HasNextJsLabel /\ result.audit_data.schema_count = 0))

\* C8 as amended: it is emitted exactly when schema_count is 0 and either the
\* labels include "Next.js (React)" or the X-Powered-By value names Next.js.
C8_SsrRule ==
  Produced =>
    (Contains(result.recs, RecSSR)
       <=> /\ world.home.soup.schemas = 0
           /\ HasNextJsLabel \/ PoweredByNextJs(world.home.headers))

C8_Witness ==
  /\ Produced
  /\ ~HasNextJsLabel
  /\ result.audit_data.stack = <<"Server:", "Next.js">>
  /\ result.audit_data.schema_count = 0
  /\ Contains(result.recs, RecSSR)

\* C9: ai_access is Allowed or Blocked iff robots.txt is Found, Uncontrolled iff
\* it is Missing, Unknown iff it is Error; so the ai_access points are never
\* awarded without the robots.txt points.
C9_AccessFollowsRobots ==
  pc = "done" =>
    /\ (gates.ai_access \in {Allowed, Blocked}) <=> (gates.robots_txt = Found)
    /\ (gates.ai_access = Uncontrolled) <=> (gates.robots_txt = Missing)
    /\ (gates.ai_access = Unknown) <=> (gates.robots_txt = Error)
    /\ AccessPoints([gates |-> gates]) = 20 => RobotsPoints([gates |-> gates]) = 20

C9_Witness ==
  /\ pc = "done"
  /\ gates.robots_txt = Found
  /\ gates.ai_access = Allowed
  /\ AccessPoints([gates |-> gates]) = 20
  /\ RobotsPoints([gates |-> gates]) = 20

Stored == <<session.audit_data, session.recs, session.ai_summary>>

\* the three slots are empty, or hold the outputs of one successful run
AllOrNothing ==
  \/ Stored = <<None, NoneList, None>>
  \/ /\ session.audit_data # None
     /\ session.recs = generate_recommendations(session.audit_data)
     /\ session.ai_summary = Narrative(session.audit_data)

FailedOutcomes == {"rejected", "homepage", "identity", "generation"}

\* C10: audit_data, recs and ai_summary are all empty or all from one and the
\* same successful run, and a failed run or a rejected request leaves them
\* unchanged.
C10_SessionConsistent ==
  /\ []AllOrNothing
  /\ [][last' \in FailedOutcomes => Stored' = Stored]_vars

C10_Witness ==
  /\ last = "generation"
  /\ session.audit_data # None
  /\ session.recs = generate_recommendations(session.audit_data)
  /\ session.ai_summary = Narrative(session.audit_data)

====
